---- MODULE Spec2Model ----
(***************************************************************************)
(* The cart / draft-sale manager of the point-of-sale client               *)
(* (src/src/contexts/cart-context.tsx) and the operator login              *)
(* (src/src/contexts/auth-context.tsx) over the local store tables sales   *)
(* and sale_items, together with the reactive views the manager reads.     *)
(*                                                                         *)
(* Amounts are integer cents.  A writeTransaction body is one step: the     *)
(* store runs write transactions one at a time and commits them whole.     *)
(* updateQuantity, removeItem, clearCart and completeSale ask the store    *)
(* for their one transaction or statement in the same turn in which they   *)
(* read the render's values, so each is one step.  addItem awaits the      *)
(* store up to three times (point lookup, insert of the draft sale, write  *)
(* transaction); each await is a step, and several addItem calls may be    *)
(* in flight together.                                                     *)
(***************************************************************************)
EXTENDS Integers, FiniteSets, Sequences, Bags, TLC

\* ---------------------------------------------------------------- bounds
MaxSales == 2       \* sale ids generateId may hand out
MaxItems == 2       \* line-item ids generateId may hand out
MaxQty == 2         \* largest quantity of a line item
MaxCalls == 2       \* addItem calls that may be in flight together

\* ------------------------------------------------------------- constants
Null == "null"

Products == {"A", "B"}

\* products.price of the seed rows (4.99 and 2.49), in cents
Price(p) == IF p = "A" THEN 499 ELSE 249

\* products.stock_quantity of the same seed rows
Stock(p) == IF p = "A" THEN 100 ELSE 60

\* the rows of the products table
ProductRows ==
  [p \in Products |-> [price |-> Price(p), stock_quantity |-> Stock(p)]]

\* the ids of the rows of the categories table
CategoryRows == {"Beverages", "Snacks"}

\* the prices a product object handed to addItem may carry: the seed price,
\* or the price after a change of the products row
ProductPrices(p) == {Price(p), Price(p) + 100}

\* rows of the cashiers table: two of the seed rows, the second one
\* deactivated
CashierRows ==
  { [id |-> "op1", pin_hash |-> "1234", is_active |-> 1],
    [id |-> "op3", pin_hash |-> "9012", is_active |-> 0] }

\* the PINs the cart specification logs in with
CartPins == {"1234"}

\* the strings loginWithPin is called with: the PIN of an active operator,
\* the PIN of a deactivated one, one too short and one of four characters
\* that are not all digits
AuthPins == {"1234", "9012", "12", "12a4"}

\* the two messages setError is called with
InvalidPinError == "Invalid PIN. Please try again."

LoginFailedError == "An error occurred during login. Please try again."

QtyArgs == (0 - 1) .. MaxQty

VARIABLES
  sales,          \* table sales: id -> row
  sale_items,     \* table sale_items: id -> row
  saleCounter,    \* number of sale ids generateId has handed out
  itemCounter,    \* number of line-item ids generateId has handed out
  cashier,        \* AuthProvider state: logged-in operator id, or Null
  error,          \* AuthProvider state: the error message, or Null
  loginReturn,    \* what loginWithPin returned last (FALSE before any call)
  isAuthenticating, \* AuthProvider state
  backendUp,      \* the backend (Supabase) can be reached
  session,        \* connector: an anonymous session with the backend exists
  connected,      \* powerSync.connect has been called
  initPc,         \* initializePowerSync: "start" before it ran, then "done"
  currentSaleId,  \* CartProvider render: draftSales[0].id, or Null
  rawSaleItems,   \* CartProvider render: result of the sale-items live query
  productMap,     \* CartProvider render: ids of the products loaded
  isProcessing,   \* CartProvider state
  products,       \* table products: id -> row
  cashiers,       \* table cashiers: set of rows
  categories,     \* table categories: set of row ids
  calls,          \* bag of the addItem calls in flight
  last            \* the cart operation that returned last

authVars == <<cashier, error, loginReturn, isAuthenticating>>
syncVars == <<backendUp, session, connected, initPc>>
catalogVars == <<products, cashiers, categories>>
dbVars == <<sales, sale_items, saleCounter, itemCounter>>
viewVars == <<currentSaleId, rawSaleItems, productMap>>
vars == <<sales, sale_items, saleCounter, itemCounter, cashier, error,
          loginReturn, isAuthenticating, backendUp, session, connected, initPc,
          products, cashiers, categories, currentSaleId, rawSaleItems,
          productMap, isProcessing, calls, last>>

\* ------------------------------------------------------- local store SQL
EmptyTable == [x \in {} |-> 0]

RECURSIVE SumSubtotal(_, _)
SumSubtotal(tbl, ids) ==
  IF ids = {} THEN 0
  ELSE LET i == CHOOSE x \in ids : TRUE
       IN tbl[i].subtotal + SumSubtotal(tbl, ids \ {i})

\* rows of sale_items WHERE sale_id = s
ItemsOfSale(tbl, s) == {i \in DOMAIN tbl : tbl[i].sale_id = s}

\* SELECT COALESCE(SUM(subtotal), 0) FROM sale_items WHERE sale_id = s
SelectTotal(tbl, s) == SumSubtotal(tbl, ItemsOfSale(tbl, s))

\* SELECT ... FROM sale_items WHERE sale_id = s AND product_id = p
ExistingItems(tbl, s, p) ==
  {i \in DOMAIN tbl : tbl[i].sale_id = s /\ tbl[i].product_id = p}

\* SELECT id FROM sales WHERE cashier_id = c AND status = 'draft'
DraftsOf(sl, c) ==
  {s \in DOMAIN sl : sl[s].cashier_id = c /\ sl[s].status = "draft"}

\* mutant: the sale's total is not written back
RecalcTotalNotWritten(sl, tbl, s) == sl

\* UPDATE sales SET total_amount = (sum) WHERE id = s
RecalcTotal(sl, tbl, s) ==
  IF s \in DOMAIN sl
  THEN [sl EXCEPT ![s].total_amount = SelectTotal(tbl, s)]
  ELSE sl

\* INSERT INTO sales (id, cashier_id, total_amount, status, created_at)
InsertDraftSale(sl, id, c) ==
  sl @@ (id :> [cashier_id |-> c, total_amount |-> 0, status |-> "draft",
                completed_at |-> FALSE])

\* mutant: the subtotal is computed from the old quantity
IncrementItemOldSubtotal(tbl, i) ==
  [tbl EXCEPT ![i].quantity = tbl[i].quantity + 1,
              ![i].subtotal = tbl[i].quantity * tbl[i].unit_price]

\* mutant: the increment is lost, the row keeps the quantity it had
IncrementItemLost(tbl, i) ==
  LET newQuantity == tbl[i].quantity
      newSubtotal == newQuantity * tbl[i].unit_price
  IN [tbl EXCEPT ![i].quantity = newQuantity, ![i].subtotal = newSubtotal]

\* UPDATE sale_items SET quantity = quantity + 1, subtotal = ... WHERE id = i
IncrementItem(tbl, i) ==
  LET newQuantity == tbl[i].quantity + 1
      newSubtotal == newQuantity * tbl[i].unit_price
  IN [tbl EXCEPT ![i].quantity = newQuantity, ![i].subtotal = newSubtotal]

\* mutant: the line item is inserted with quantity 0
InsertItemZeroQuantity(tbl, id, s, p, price) ==
  tbl @@ (id :> [sale_id |-> s, product_id |-> p, quantity |-> 0,
                 unit_price |-> price, subtotal |-> 0])

\* INSERT INTO sale_items (id, sale_id, product_id, quantity, unit_price, subtotal)
InsertItem(tbl, id, s, p, price) ==
  tbl @@ (id :> [sale_id |-> s, product_id |-> p, quantity |-> 1,
                 unit_price |-> price, subtotal |-> price])

\* mutant: the line item is priced again, at the seed price of its product
SetItemQuantitySeedPrice(tbl, i, q) ==
  LET price == Price(tbl[i].product_id)
  IN [tbl EXCEPT ![i].quantity = q, ![i].unit_price = price,
                 ![i].subtotal = q * price]

\* UPDATE sale_items SET quantity = q, subtotal = q * unit_price WHERE id = i
SetItemQuantity(tbl, i, q) ==
  LET newSubtotal == q * tbl[i].unit_price
  IN [tbl EXCEPT ![i].quantity = q, ![i].subtotal = newSubtotal]

\* mutant: the DELETE takes every line item of the sale of line item i
DeleteItemsOfSameSale(tbl, i) ==
  [x \in {y \in DOMAIN tbl : tbl[y].sale_id # tbl[i].sale_id} |-> tbl[x]]

\* DELETE FROM sale_items WHERE id = i
DeleteItem(tbl, i) == [x \in DOMAIN tbl \ {i} |-> tbl[x]]

\* DELETE FROM sale_items WHERE sale_id = s
DeleteItemsOfSale(tbl, s) ==
  [x \in DOMAIN tbl \ ItemsOfSale(tbl, s) |-> tbl[x]]

\* DELETE FROM sales WHERE id = s
DeleteSale(sl, s) == [x \in DOMAIN sl \ {s} |-> sl[x]]

\* UPDATE sales SET status = 'completed', total_amount = t, completed_at = now
MarkCompleted(sl, s, t) ==
  IF s \in DOMAIN sl
  THEN [sl EXCEPT ![s].status = "completed", ![s].total_amount = t,
                  ![s].completed_at = TRUE]
  ELSE sl

\* ------------------------------------------------- CartProvider's render
\* items: the rows of rawSaleItems whose product is in productMap
items ==
  IF currentSaleId = Null THEN {}
  ELSE {i \in DOMAIN rawSaleItems : rawSaleItems[i].product_id \in productMap}

\* total: the sum of the subtotals of items
total == SumSubtotal(rawSaleItems, items)

\* -------------------------------------------------------------- calls
\* an addItem call in flight: where it stands, the cashier of the render it
\* was made in, the id and the price of its product object, the sale id
\* getOrCreateDraftSale settled on and the path by which it did
Call(pcname, c, p, price, sid, path) ==
  [pc |-> pcname, cashier |-> c, product |-> p, price |-> price,
   saleId |-> sid, goc |-> path]

InFlight == BagToSet(calls)

Start(call) ==
  /\ BagCardinality(calls) < MaxCalls
  /\ calls' = calls (+) SetToBag({call})

Step(call, next) == calls' = (calls (-) SetToBag({call})) (+) SetToBag({next})

Finish(call) == calls' = calls (-) SetToBag({call})

\* what the cart operation that returned last was, the path it took through
\* getOrCreateDraftSale and through its own branches, its sale id, its
\* product and the price of the product object (0 where it has none) and the
\* value it returned
Returned(opname, path, br, sid, p, price, res) ==
  [op |-> opname, goc |-> path, branch |-> br, saleId |-> sid, product |-> p,
   price |-> price, result |-> res]

NoCall == Returned("none", "none", "none", Null, Null, 0, Null)

Init ==
  /\ sales = EmptyTable
  /\ sale_items = EmptyTable
  /\ saleCounter = 0
  /\ itemCounter = 0
  /\ cashier = Null
  /\ error = Null
  /\ loginReturn = FALSE
  /\ isAuthenticating = FALSE
  /\ backendUp = FALSE
  /\ session = FALSE
  /\ connected = FALSE
  /\ initPc = "start"
  /\ products = ProductRows
  /\ cashiers = CashierRows
  /\ categories = CategoryRows
  /\ currentSaleId = Null
  /\ rawSaleItems = EmptyTable
  /\ productMap = {}
  /\ isProcessing = FALSE
  /\ calls = EmptyBag
  /\ last = NoCall

\* ------------------------------------------------------------ generateId
\* a fresh id: different from every id handed out before.  Ids of sales and
\* of line items are never compared, so each table counts its own.
GenerateSaleId == "s" \o ToString(saleCounter + 1)

GenerateItemId == "i" \o ToString(itemCounter + 1)

\* ------------------------------------------------- getOrCreateDraftSale
\* addItem's guard: a cashier is logged in
CanAddItem == cashier # Null

\* addItem up to its first await: getOrCreateDraftSale uses the draft sale
\* of the live query when the render has one, else goes to the point lookup
AddItemEntry(p, price) ==
  IF currentSaleId # Null
  THEN Call("tx", cashier, p, price, currentSaleId, "view")
  ELSE Call("lookup", cashier, p, price, Null, "none")

\* addItem(product) for a product object with id p and the given price
AddItemAtPrice(p, price) ==
  /\ IF CanAddItem
     THEN /\ Start(AddItemEntry(p, price))
          /\ UNCHANGED last
     ELSE /\ last' = Returned("addItem", "none", "noop", Null, p, 0, Null)
          /\ UNCHANGED calls
  /\ UNCHANGED <<dbVars, authVars, syncVars, catalogVars, viewVars,
                 isProcessing>>

\* addItem(product) for a product object that carries the seed price
AddItem(p) == AddItemAtPrice(p, Price(p))

\* mutant: the point lookup looks for the draft of no cashier
LookupDraftOfNobody(sl, c) == DraftsOf(sl, Null)

\* the direct point lookup: SELECT id FROM sales WHERE cashier_id = ? AND
\* status = 'draft' LIMIT 1 (no ORDER BY: any matching row)
LookupDraft(sl, c) == DraftsOf(sl, c)

GetOrCreateLookup ==
  /\ \E call \in InFlight :
       /\ call.pc = "lookup"
       /\ LET existingDraft == LookupDraft(sales, call.cashier)
          IN IF existingDraft # {}
             THEN \E s \in existingDraft :
                    Step(call, [call EXCEPT !.pc = "tx", !.saleId = s,
                                            !.goc = "found"])
             ELSE Step(call, [call EXCEPT !.pc = "insert"])
  /\ UNCHANGED <<dbVars, authVars, syncVars, catalogVars, viewVars,
                 isProcessing, last>>

GetOrCreateInsert ==
  /\ saleCounter < MaxSales
  /\ \E call \in InFlight :
       /\ call.pc = "insert"
       /\ LET newSaleId == GenerateSaleId
          IN /\ sales' = InsertDraftSale(sales, newSaleId, call.cashier)
             /\ Step(call, [call EXCEPT !.pc = "tx", !.saleId = newSaleId,
                                        !.goc = "created"])
  /\ saleCounter' = saleCounter + 1
  /\ UNCHANGED <<sale_items, itemCounter, authVars, syncVars, catalogVars,
                 viewVars, isProcessing, last>>

\* ---------------------------------------------------------------- addItem
\* the write transaction of addItem
AddItemTx ==
  /\ \E call \in InFlight :
       /\ call.pc = "tx"
       /\ Finish(call)
       /\ LET saleId == call.saleId
              p == call.product
              existingItem == ExistingItems(sale_items, saleId, p)
          IN IF existingItem # {}
             THEN \E i \in existingItem :
                    /\ sale_items[i].quantity < MaxQty
                    /\ sale_items' = IncrementItem(sale_items, i)
                    /\ sales' = RecalcTotal(sales, sale_items', saleId)
                    /\ itemCounter' = itemCounter
                    /\ last' = Returned("addItem", call.goc, "incremented",
                                        saleId, p, call.price, Null)
             ELSE /\ itemCounter < MaxItems
                  /\ sale_items' = InsertItem(sale_items, GenerateItemId,
                                              saleId, p, call.price)
                  /\ sales' = RecalcTotal(sales, sale_items', saleId)
                  /\ itemCounter' = itemCounter + 1
                  /\ last' = Returned("addItem", call.goc, "inserted",
                                      saleId, p, call.price, Null)
  /\ UNCHANGED <<saleCounter, authVars, syncVars, catalogVars, viewVars,
                 isProcessing>>

\* --------------------------------------------------------- updateQuantity
\* the guard of updateQuantity, removeItem and clearCart: the render has a
\* draft sale id
HasCurrentSale == currentSaleId # Null

\* mutant: only a negative quantity removes the line item
UpdateQuantityRowsNegativeOnly(tbl, i, q) ==
  IF q < 0 THEN DeleteItem(tbl, i) ELSE SetItemQuantity(tbl, i, q)

\* the statement updateQuantity issues on the line item it found
UpdateQuantityRows(tbl, i, q) ==
  IF q <= 0 THEN DeleteItem(tbl, i) ELSE SetItemQuantity(tbl, i, q)

UpdateQuantity(p, q) ==
  /\ IF ~HasCurrentSale
     THEN /\ last' = Returned("updateQuantity", "none", "noop", Null, p, 0, Null)
          /\ UNCHANGED <<sales, sale_items>>
     ELSE LET existingItem == ExistingItems(sale_items, currentSaleId, p)
          IN IF existingItem = {}
             THEN /\ last' = Returned("updateQuantity", "none", "absent",
                                      currentSaleId, p, 0, Null)
                  /\ UNCHANGED <<sales, sale_items>>
             ELSE \E i \in existingItem :
                    /\ sale_items' = UpdateQuantityRows(sale_items, i, q)
                    /\ sales' = RecalcTotal(sales, sale_items', currentSaleId)
                    /\ last' = Returned("updateQuantity", "none",
                                        IF q <= 0 THEN "deleted" ELSE "updated",
                                        currentSaleId, p, 0, Null)
  /\ UNCHANGED <<saleCounter, itemCounter, authVars, syncVars, catalogVars,
                 viewVars, isProcessing, calls>>

\* the plus control of the cart line the render shows for line item i:
\* updateQuantity(item.product.id, item.quantity + 1) with the item of the
\* render
PressPlus(i) ==
  /\ i \in items
  /\ rawSaleItems[i].quantity < MaxQty
  /\ UpdateQuantity(rawSaleItems[i].product_id, rawSaleItems[i].quantity + 1)

\* the minus control: updateQuantity(item.product.id, item.quantity - 1)
PressMinus(i) ==
  /\ i \in items
  /\ UpdateQuantity(rawSaleItems[i].product_id, rawSaleItems[i].quantity - 1)

\* ------------------------------------------------------------- removeItem
RemoveItem(p) ==
  /\ IF ~HasCurrentSale
     THEN /\ last' = Returned("removeItem", "none", "noop", Null, p, 0, Null)
          /\ UNCHANGED <<sales, sale_items>>
     ELSE LET existingItem == ExistingItems(sale_items, currentSaleId, p)
          IN IF existingItem = {}
             THEN /\ last' = Returned("removeItem", "none", "absent",
                                      currentSaleId, p, 0, Null)
                  /\ UNCHANGED <<sales, sale_items>>
             ELSE \E i \in existingItem :
                    /\ sale_items' = DeleteItem(sale_items, i)
                    /\ sales' = RecalcTotal(sales, sale_items', currentSaleId)
                    /\ last' = Returned("removeItem", "none", "deleted",
                                        currentSaleId, p, 0, Null)
  /\ UNCHANGED <<saleCounter, itemCounter, authVars, syncVars, catalogVars,
                 viewVars, isProcessing, calls>>

\* -------------------------------------------------------------- clearCart
ClearCart ==
  /\ IF ~HasCurrentSale
     THEN /\ last' = Returned("clearCart", "none", "noop", Null, Null, 0, Null)
          /\ UNCHANGED <<sales, sale_items>>
     ELSE /\ sale_items' = DeleteItemsOfSale(sale_items, currentSaleId)
          /\ sales' = DeleteSale(sales, currentSaleId)
          /\ last' = Returned("clearCart", "none", "cleared", currentSaleId,
                              Null, 0, Null)
  /\ UNCHANGED <<saleCounter, itemCounter, authVars, syncVars, catalogVars,
                 viewVars, isProcessing, calls>>

\* ----------------------------------------------------------- completeSale
\* mutant: the empty cart is not checked
CanCompleteSaleEmptyCart == ~(cashier = Null \/ currentSaleId = Null)

\* completeSale's guard: a cashier, a draft sale id and a non-empty cart
CanCompleteSale ==
  ~(cashier = Null \/ currentSaleId = Null \/ Cardinality(items) = 0)

\* mutant: completing a sale takes one unit per line item from the stock
CompleteSaleDecrementsStock(pr, tbl, s) ==
  [p \in DOMAIN pr |->
     [pr[p] EXCEPT !.stock_quantity =
        @ - Cardinality(ExistingItems(tbl, s, p))]]

\* the products table after completeSale: its one statement is the UPDATE
\* of sales, so every products row is as it was
CompleteSaleProducts(pr, tbl, s) == pr

\* mutant: the catch of completeSale does not reset isProcessing
CompleteSaleLeavesProcessingOnThrow(branch) == branch # "completed"

\* isProcessing when completeSale returns past its guard:
\* setIsProcessing(true) before the try, setIsProcessing(false) after the
\* UPDATE and in the catch
CompleteSaleLeavesProcessing(branch) ==
  CASE branch = "completed" -> FALSE
    [] OTHER -> FALSE

\* setIsProcessing(true), the UPDATE, setIsProcessing(false)
CompleteSale ==
  /\ IF ~CanCompleteSale
     THEN /\ last' = Returned("completeSale", "none", "noop", Null, Null, 0,
                              Null)
          /\ UNCHANGED <<sales, products, isProcessing>>
     ELSE /\ sales' = MarkCompleted(sales, currentSaleId, total)
          /\ products' = CompleteSaleProducts(products, sale_items,
                                              currentSaleId)
          /\ isProcessing' = CompleteSaleLeavesProcessing("completed")
          /\ last' = Returned("completeSale", "none", "completed",
                              currentSaleId, Null, 0, currentSaleId)
  /\ UNCHANGED <<sale_items, saleCounter, itemCounter, authVars, syncVars,
                 cashiers, categories, viewVars, calls>>

\* ------------------------------------------------------------ live queries
\* mutant: the draft-sale live query is not filtered by cashier_id
DraftSalesOfAnyone(sl, c) == {s \in DOMAIN sl : sl[s].status = "draft"}

\* the rows of the draft-sale live query: the sales with the cashier_id of
\* the logged-in cashier ("" when there is none) and status 'draft'
DraftSalesQuery(sl, c) == DraftsOf(sl, c)

\* the draft-sale live query delivers its current result; the sale-items
\* query is keyed by currentSaleId, so a new key starts from no rows
LiveDraftSales ==
  /\ LET draftSales == DraftSalesQuery(sales, cashier)
     IN IF draftSales = {}
        THEN currentSaleId' = Null
        ELSE \E s \in draftSales : currentSaleId' = s
  /\ rawSaleItems' = IF currentSaleId' = currentSaleId THEN rawSaleItems
                     ELSE EmptyTable
  /\ UNCHANGED <<dbVars, authVars, syncVars, catalogVars, productMap,
                 isProcessing, calls, last>>

LiveSaleItems ==
  /\ currentSaleId # Null
  /\ rawSaleItems' = [i \in ItemsOfSale(sale_items, currentSaleId)
                        |-> sale_items[i]]
  /\ UNCHANGED <<dbVars, authVars, syncVars, catalogVars, currentSaleId,
                 productMap, isProcessing, calls, last>>

LiveProducts ==
  /\ productMap' = Products
  /\ UNCHANGED <<dbVars, authVars, syncVars, catalogVars, currentSaleId,
                 rawSaleItems, isProcessing, calls, last>>

\* ------------------------------------------------------------------ login
\* SELECT * FROM cashiers WHERE pin_hash = ? AND is_active = 1 LIMIT 1
SelectCashier(pin) ==
  {r \in cashiers : r.pin_hash = pin /\ r.is_active = 1}

\* the identity loginWithPin sets, or Null when it sets none: the row the
\* query returned; the demo identity when the query returned no row or threw
\* and the pin has four characters
LoginIdentity(pin, queryOk) ==
  LET result == IF queryOk THEN SelectCashier(pin) ELSE {}
  IN IF result = {}
     THEN IF Len(pin) = 4 THEN "demo-" \o pin ELSE Null
     ELSE (CHOOSE r \in result : TRUE).id

\* mutant: a query that throws is reported as an invalid PIN
LoginErrorOneMessage(pin, queryOk) ==
  IF LoginIdentity(pin, queryOk) # Null THEN Null ELSE InvalidPinError

\* the message loginWithPin leaves in error: none when it set an identity
LoginError(pin, queryOk) ==
  IF LoginIdentity(pin, queryOk) # Null THEN Null
  ELSE IF queryOk THEN InvalidPinError ELSE LoginFailedError

\* connector.signInAnonymously(): a session with the backend when it can be
\* reached; it throws when it cannot, and the session stays as it was
SignInAnonymously == IF backendUp THEN TRUE ELSE session

\* the way loginWithPin leaves: "demo" (no row, four characters), "invalid"
\* (no row), "found", and in the catch "demoOnError" (four characters) or
\* "failed"
LoginPath(pin, queryOk) ==
  IF queryOk
  THEN IF SelectCashier(pin) = {}
       THEN IF Len(pin) = 4 THEN "demo" ELSE "invalid"
       ELSE "found"
  ELSE IF Len(pin) = 4 THEN "demoOnError" ELSE "failed"

\* mutant: the invalid-PIN way out does not reset isAuthenticating
LoginLeavesAuthenticatingOnInvalid(pin, queryOk) ==
  LoginPath(pin, queryOk) = "invalid"

\* isAuthenticating when loginWithPin returns: setIsAuthenticating(true) on
\* entry, setIsAuthenticating(false) before each of the five returns
LoginLeavesAuthenticating(pin, queryOk) ==
  CASE LoginPath(pin, queryOk) = "demo" -> FALSE
    [] LoginPath(pin, queryOk) = "invalid" -> FALSE
    [] LoginPath(pin, queryOk) = "found" -> FALSE
    [] LoginPath(pin, queryOk) = "demoOnError" -> FALSE
    [] LoginPath(pin, queryOk) = "failed" -> FALSE

\* loginWithPin(pin), the query of the cashiers table answering (queryOk) or
\* throwing.  When the query returns a row, it tries the anonymous sign-in
\* and goes on whether that succeeds or throws.  The draft-sale live query
\* is keyed by the cashier's id: a new key starts from no rows.
LoginWithPin(pin, queryOk) ==
  /\ cashier' = IF LoginIdentity(pin, queryOk) = Null THEN cashier
                ELSE LoginIdentity(pin, queryOk)
  /\ error' = LoginError(pin, queryOk)
  /\ loginReturn' = (LoginIdentity(pin, queryOk) # Null)
  /\ isAuthenticating' = LoginLeavesAuthenticating(pin, queryOk)
  /\ session' = IF queryOk /\ SelectCashier(pin) # {} THEN SignInAnonymously
                ELSE session
  /\ currentSaleId' = IF cashier' = cashier THEN currentSaleId ELSE Null
  /\ rawSaleItems' = IF cashier' = cashier THEN rawSaleItems ELSE EmptyTable
  /\ UNCHANGED <<dbVars, catalogVars, backendUp, connected, initPc,
                 productMap, isProcessing, calls, last>>

\* mutant: logout discards the draft sales of the cashier who logs out
LogoutDiscardsDrafts(sl, c) ==
  [s \in DOMAIN sl \ DraftsOf(sl, c) |-> sl[s]]

\* the sales table after logout: its two statements are setCashier(null)
\* and setError(null), so every sale is as it was
LogoutSales(sl, c) == sl

Logout ==
  /\ cashier' = Null
  /\ error' = Null
  /\ sales' = LogoutSales(sales, cashier)
  /\ currentSaleId' = Null
  /\ rawSaleItems' = EmptyTable
  /\ UNCHANGED <<sale_items, saleCounter, itemCounter, loginReturn,
                 isAuthenticating, syncVars, catalogVars, productMap,
                 isProcessing, calls, last>>

ClearError ==
  /\ error' = Null
  /\ UNCHANGED <<dbVars, cashier, loginReturn, isAuthenticating, syncVars,
                 catalogVars, viewVars, isProcessing, calls, last>>

\* ------------------------------------------------------------ sync client
\* initializePowerSync, run once when the module is loaded: the anonymous
\* sign-in, then powerSync.connect; when the sign-in throws, the catch logs
\* and connect is not called
InitializePowerSync ==
  /\ initPc = "start"
  /\ initPc' = "done"
  /\ session' = SignInAnonymously
  /\ connected' = IF backendUp THEN TRUE ELSE connected
  /\ UNCHANGED <<dbVars, catalogVars, authVars, backendUp, viewVars,
                 isProcessing, calls, last>>

\* the network: the backend becomes reachable, or unreachable
BackendRestored ==
  /\ ~backendUp
  /\ backendUp' = TRUE
  /\ UNCHANGED <<dbVars, catalogVars, authVars, session, connected, initPc,
                 viewVars, isProcessing, calls, last>>

BackendLost ==
  /\ backendUp
  /\ backendUp' = FALSE
  /\ UNCHANGED <<dbVars, catalogVars, authVars, session, connected, initPc,
                 viewVars, isProcessing, calls, last>>

\* --------------------------------------------------- store failures
\* mutant: the writes of a transaction that throws stay in the table
RolledBackNothing(before, written) == written

\* powerSync.writeTransaction whose callback throws: the table is left with
\* the rows from before the transaction, not with those written in it
RolledBack(before, written) == before

\* the statements of a transaction of updateQuantity, removeItem or addItem
\* that may throw: the lookup of the line item, the write of the line item,
\* the recomputation of the total
TxFailPoints == {"lookup", "write", "total"}

\* the statements of clearCart's transaction
ClearFailPoints == {"deleteItems", "deleteSale"}

Threw(failAt) == failAt \o "Threw"

ThrewBranches ==
  {Threw(failAt) : failAt \in TxFailPoints \cup ClearFailPoints \cup {"insert"}}

\* the point lookup of getOrCreateDraftSale throws: .catch(() => null) makes
\* it "no draft found", and the call goes on to insert
GetOrCreateLookupThrows ==
  /\ \E call \in InFlight :
       /\ call.pc = "lookup"
       /\ Step(call, [call EXCEPT !.pc = "insert"])
  /\ UNCHANGED <<dbVars, authVars, syncVars, catalogVars, viewVars,
                 isProcessing, last>>

\* the INSERT of the draft sale throws: getOrCreateDraftSale rejects, and
\* addItem's catch logs the error and returns
GetOrCreateInsertThrows ==
  /\ \E call \in InFlight :
       /\ call.pc = "insert"
       /\ Finish(call)
       /\ last' = Returned("addItem", call.goc, Threw("insert"), Null,
                           call.product, call.price, Null)
  /\ UNCHANGED <<dbVars, authVars, syncVars, catalogVars, viewVars,
                 isProcessing>>

\* the lookup of the line item in addItem's transaction throws:
\* .catch(() => null) makes it "no line item", and the transaction inserts
AddItemTxLookupThrows ==
  /\ itemCounter < MaxItems
  /\ \E call \in InFlight :
       /\ call.pc = "tx"
       /\ Finish(call)
       /\ sale_items' = InsertItem(sale_items, GenerateItemId, call.saleId,
                                   call.product, call.price)
       /\ sales' = RecalcTotal(sales, sale_items', call.saleId)
       /\ last' = Returned("addItem", call.goc, Threw("lookup"), call.saleId,
                           call.product, call.price, Null)
  /\ itemCounter' = itemCounter + 1
  /\ UNCHANGED <<saleCounter, authVars, syncVars, catalogVars, viewVars,
                 isProcessing>>

\* the write of the line item or the recomputation of the total throws in
\* addItem's transaction: the transaction is rolled back, addItem's catch
\* logs the error and returns
AddItemTxThrows(failAt) ==
  /\ \E call \in InFlight :
       /\ call.pc = "tx"
       /\ Finish(call)
       /\ LET existingItem ==
                ExistingItems(sale_items, call.saleId, call.product)
              written ==
                IF failAt = "write" THEN {sale_items}
                ELSE IF existingItem # {}
                THEN {IncrementItem(sale_items, i) : i \in existingItem}
                ELSE {InsertItem(sale_items, GenerateItemId, call.saleId,
                                 call.product, call.price)}
          IN \E w \in written : sale_items' = RolledBack(sale_items, w)
       /\ sales' = RolledBack(sales, sales)
       /\ last' = Returned("addItem", call.goc, Threw(failAt), call.saleId,
                           call.product, call.price, Null)
  /\ UNCHANGED <<saleCounter, itemCounter, authVars, syncVars, catalogVars,
                 viewVars, isProcessing>>

\* a statement of updateQuantity's transaction throws.  A lookup that
\* throws is "no line item" (.catch(() => null)) and the callback returns;
\* any other statement rolls the transaction back, and updateQuantity's
\* catch logs the error and returns.
UpdateQuantityThrows(p, q, failAt) ==
  /\ HasCurrentSale
  /\ LET existingItem == ExistingItems(sale_items, currentSaleId, p)
         written ==
           IF failAt = "total"
           THEN {UpdateQuantityRows(sale_items, i, q) : i \in existingItem}
           ELSE {sale_items}
     IN /\ failAt # "lookup" => existingItem # {}
        /\ \E w \in written : sale_items' = RolledBack(sale_items, w)
  /\ sales' = RolledBack(sales, sales)
  /\ last' = Returned("updateQuantity", "none", Threw(failAt), currentSaleId,
                      p, 0, Null)
  /\ UNCHANGED <<saleCounter, itemCounter, authVars, syncVars, catalogVars,
                 viewVars, isProcessing, calls>>

RemoveItemThrows(p, failAt) ==
  /\ HasCurrentSale
  /\ LET existingItem == ExistingItems(sale_items, currentSaleId, p)
         written ==
           IF failAt = "total"
           THEN {DeleteItem(sale_items, i) : i \in existingItem}
           ELSE {sale_items}
     IN /\ failAt # "lookup" => existingItem # {}
        /\ \E w \in written : sale_items' = RolledBack(sale_items, w)
  /\ sales' = RolledBack(sales, sales)
  /\ last' = Returned("removeItem", "none", Threw(failAt), currentSaleId, p, 0,
                      Null)
  /\ UNCHANGED <<saleCounter, itemCounter, authVars, syncVars, catalogVars,
                 viewVars, isProcessing, calls>>

\* a statement of clearCart's transaction throws: when it is the DELETE of
\* the sale, the DELETE of the line items has been executed in the
\* transaction
ClearCartThrows(failAt) ==
  /\ HasCurrentSale
  /\ LET written == IF failAt = "deleteSale"
                    THEN DeleteItemsOfSale(sale_items, currentSaleId)
                    ELSE sale_items
     IN sale_items' = RolledBack(sale_items, written)
  /\ sales' = RolledBack(sales, sales)
  /\ last' = Returned("clearCart", "none", Threw(failAt), currentSaleId, Null, 0,
                      Null)
  /\ UNCHANGED <<saleCounter, itemCounter, authVars, syncVars, catalogVars,
                 viewVars, isProcessing, calls>>

\* the UPDATE of completeSale throws: nothing is written, the catch logs
\* the error, resets isProcessing and returns null
CompleteSaleThrows ==
  /\ CanCompleteSale
  /\ isProcessing' = CompleteSaleLeavesProcessing(Threw("update"))
  /\ last' = Returned("completeSale", "none", Threw("update"), currentSaleId,
                      Null, 0, Null)
  /\ UNCHANGED <<dbVars, authVars, syncVars, catalogVars, viewVars, calls>>

\* --------------------------------------------------------- specifications
\* addItem called while no other addItem is in flight
AddItemAlone(p) ==
  /\ calls = EmptyBag
  /\ AddItem(p)

\* every operation, over stale and fresh renders, one addItem at a time
Next ==
  \/ \E p \in Products : AddItemAlone(p)
  \/ GetOrCreateLookup
  \/ GetOrCreateInsert
  \/ AddItemTx
  \/ \E p \in Products, q \in QtyArgs : UpdateQuantity(p, q)
  \/ \E p \in Products : RemoveItem(p)
  \/ ClearCart
  \/ CompleteSale
  \/ LiveDraftSales
  \/ LiveSaleItems
  \/ LiveProducts
  \/ \E pin \in CartPins : LoginWithPin(pin, TRUE)
  \/ Logout

Spec == Init /\ [][Next]_vars

\* addItem, updateQuantity and removeItem with up to MaxCalls addItem calls
\* in flight together
NextConcurrent ==
  \/ \E p \in Products : AddItem(p)
  \/ GetOrCreateLookup
  \/ GetOrCreateInsert
  \/ AddItemTx
  \/ \E p \in Products, q \in QtyArgs : UpdateQuantity(p, q)
  \/ \E p \in Products : RemoveItem(p)
  \/ LiveDraftSales
  \/ LiveSaleItems
  \/ \E pin \in CartPins : LoginWithPin(pin, TRUE)

SpecConcurrent == Init /\ [][NextConcurrent]_vars

\* the cart operations with statements of the local store that throw, one
\* addItem at a time
NextFailure ==
  \/ \E p \in Products : AddItemAlone(p)
  \/ GetOrCreateLookup
  \/ GetOrCreateLookupThrows
  \/ GetOrCreateInsert
  \/ GetOrCreateInsertThrows
  \/ AddItemTx
  \/ AddItemTxLookupThrows
  \/ \E failAt \in TxFailPoints \ {"lookup"} : AddItemTxThrows(failAt)
  \/ \E p \in Products, q \in QtyArgs : UpdateQuantity(p, q)
  \/ \E p \in Products, q \in QtyArgs, failAt \in TxFailPoints :
       UpdateQuantityThrows(p, q, failAt)
  \/ \E p \in Products : RemoveItem(p)
  \/ \E p \in Products, failAt \in TxFailPoints : RemoveItemThrows(p, failAt)
  \/ ClearCart
  \/ \E failAt \in ClearFailPoints : ClearCartThrows(failAt)
  \/ LiveDraftSales
  \/ \E pin \in CartPins : LoginWithPin(pin, TRUE)

SpecFailure == Init /\ [][NextFailure]_vars

\* addItem with product objects whose price has changed, updateQuantity and
\* removeItem, one addItem at a time
NextPrice ==
  \/ \E p \in Products : \E price \in ProductPrices(p) :
       calls = EmptyBag /\ AddItemAtPrice(p, price)
  \/ GetOrCreateLookup
  \/ GetOrCreateInsert
  \/ AddItemTx
  \/ \E p \in Products, q \in QtyArgs : UpdateQuantity(p, q)
  \/ \E p \in Products : RemoveItem(p)
  \/ LiveDraftSales
  \/ \E pin \in CartPins : LoginWithPin(pin, TRUE)

SpecPrice == Init /\ [][NextPrice]_vars

\* login with every kind of PIN, over a cashiers query that answers or
\* throws, logout and clearError, and addItem of one product by the
\* identities logged in
NextAuth ==
  \/ \E pin \in AuthPins, queryOk \in BOOLEAN : LoginWithPin(pin, queryOk)
  \/ Logout
  \/ ClearError
  \/ AddItemAlone("A")
  \/ GetOrCreateLookup
  \/ GetOrCreateInsert
  \/ AddItemTx
  \/ LiveDraftSales

SpecAuth == Init /\ [][NextAuth]_vars

\* the start of the app and its sync client, the network, and login and
\* logout
NextSync ==
  \/ InitializePowerSync
  \/ BackendRestored
  \/ BackendLost
  \/ \E pin \in AuthPins, queryOk \in BOOLEAN : LoginWithPin(pin, queryOk)
  \/ Logout
  \/ ClearError

\* initializePowerSync runs when the module is loaded, and the operator
\* keeps logging in
SpecSync ==
  /\ Init
  /\ [][NextSync]_vars
  /\ WF_vars(InitializePowerSync)
  /\ WF_vars(\E pin \in AuthPins : LoginWithPin(pin, TRUE))

\* the login page shows the PIN pad while no cashier is logged in, and
\* navigates away once one is
LoginPage(pin, queryOk) ==
  /\ cashier = Null
  /\ LoginWithPin(pin, queryOk)

\* the seeded operator, or nobody, adds product A, one addItem at a time
AddItemBySeededOperator ==
  /\ cashier \in {Null, "op1"}
  /\ AddItemAlone("A")

\* addItem and completeSale by the seeded operator with each local-store
\* call answering or throwing, and login from the login page with every
\* kind of PIN over a cashiers query that answers or throws
NextReturn ==
  \/ AddItemBySeededOperator
  \/ GetOrCreateLookup
  \/ GetOrCreateLookupThrows
  \/ GetOrCreateInsert
  \/ GetOrCreateInsertThrows
  \/ AddItemTx
  \/ AddItemTxLookupThrows
  \/ \E failAt \in TxFailPoints \ {"lookup"} : AddItemTxThrows(failAt)
  \/ CompleteSale
  \/ CompleteSaleThrows
  \/ LiveDraftSales
  \/ LiveSaleItems
  \/ LiveProducts
  \/ \E pin \in AuthPins, queryOk \in BOOLEAN : LoginPage(pin, queryOk)
  \/ Logout

\* every local-store call an addItem is waiting for eventually answers or
\* throws
SpecReturn ==
  /\ Init
  /\ [][NextReturn]_vars
  /\ WF_vars(GetOrCreateLookup \/ GetOrCreateLookupThrows)
  /\ WF_vars(GetOrCreateInsert \/ GetOrCreateInsertThrows)
  /\ WF_vars(AddItemTx \/ AddItemTxLookupThrows
               \/ \E failAt \in TxFailPoints \ {"lookup"} :
                    AddItemTxThrows(failAt))

\* the PINs of two operators: the seeded row's, and one of four digits
\* that has no active row and logs in as a demo identity
OperatorPins == {"1234", "9012"}

\* every cart operation on one product, by two operators who take turns at
\* the terminal: each logs in from the login page and logs out
NextOperators ==
  \/ AddItemAlone("A")
  \/ GetOrCreateLookup
  \/ GetOrCreateInsert
  \/ AddItemTx
  \/ \E q \in QtyArgs : UpdateQuantity("A", q)
  \/ RemoveItem("A")
  \/ ClearCart
  \/ CompleteSale
  \/ LiveDraftSales
  \/ LiveSaleItems
  \/ LiveProducts
  \/ \E pin \in OperatorPins : LoginPage(pin, TRUE)
  \/ Logout

SpecOperators == Init /\ [][NextOperators]_vars

\* products are added and the plus and minus controls of the cart lines
\* are pressed, over stale and fresh renders
NextPress ==
  \/ \E p \in Products : AddItemAlone(p)
  \/ GetOrCreateLookup
  \/ GetOrCreateInsert
  \/ AddItemTx
  \/ \E i \in items : PressPlus(i)
  \/ \E i \in items : PressMinus(i)
  \/ LiveDraftSales
  \/ LiveSaleItems
  \/ LiveProducts
  \/ \E pin \in CartPins : LoginWithPin(pin, TRUE)

SpecPress == Init /\ [][NextPress]_vars

\* ------------------------------------------------------------------ claims
\* a call that is in flight after the step and was not before it
Arrived(x) == CopiesIn(x, calls') > CopiesIn(x, calls)

\* a call that was in flight before the step and has left by its end
Left(x) == CopiesIn(x, calls') < CopiesIn(x, calls)

\* the ids of the sales that were created and exist no more
DeletedSaleIds ==
  {"s" \o ToString(n) : n \in 1 .. saleCounter} \ DOMAIN sales

\* C1: in every committed state, under any interleaving of addItem,
\* updateQuantity and removeItem, the total_amount of every draft sale is the
\* sum of the subtotals of the line items of that sale.
DraftTotalIsSumOfSubtotals ==
  \A s \in DOMAIN sales :
    sales[s].status = "draft" =>
      sales[s].total_amount = SelectTotal(sale_items, s)

\* C1 witness: a draft sale holds two line items, a line item was just set
\* to a new quantity while an addItem call is in flight, and the total is
\* the (non-zero) sum.
DraftTotalWitness ==
  /\ last.op = "updateQuantity"
  /\ last.branch = "updated"
  /\ calls # EmptyBag
  /\ \E s \in DOMAIN sales :
       /\ sales[s].status = "draft"
       /\ Cardinality(ItemsOfSale(sale_items, s)) = 2
       /\ sales[s].total_amount > Price("A") + Price("B")

\* C2: at every point in time each operator has at most one draft sale.
AtMostOneDraftPerOperator ==
  \A s1, s2 \in DOMAIN sales :
    (/\ sales[s1].status = "draft"
     /\ sales[s2].status = "draft"
     /\ sales[s1].cashier_id = sales[s2].cashier_id) => s1 = s2

\* C2 is refuted by two addItem calls made in one render: both pass the
\* point lookup before either inserts.

\* C3: getOrCreateDraftSale returns the draft sale of the live query when
\* the render has one, else the draft sale the point lookup finds, and in
\* both cases inserts nothing; it goes on to insert only when the render
\* had no draft sale and the lookup found none, and then inserts exactly one
\* row: status draft, total_amount 0, the cashier of the call, a fresh id,
\* which it returns.  No other step adds a sale row.
GetOrCreateDraftSaleContract ==
  [][/\ \A x \in BagToSet(calls') :
          Arrived(x) =>
            /\ x.pc = "lookup" =>
                 /\ currentSaleId = Null
                 /\ sales' = sales
            /\ x.pc = "insert" =>
                 /\ DraftsOf(sales, x.cashier) = {}
                 /\ sales' = sales
            /\ (x.pc = "tx" /\ x.goc = "view") =>
                 /\ x.saleId = currentSaleId
                 /\ x.saleId # Null
                 /\ sales' = sales
            /\ (x.pc = "tx" /\ x.goc = "found") =>
                 /\ x.saleId \in DraftsOf(sales, x.cashier)
                 /\ sales' = sales
            /\ (x.pc = "tx" /\ x.goc = "created") =>
                 /\ x.saleId \notin DOMAIN sales
                 /\ \A i \in DOMAIN sale_items :
                      sale_items[i].sale_id # x.saleId
                 /\ \A y \in InFlight : y.saleId # x.saleId
                 /\ currentSaleId # x.saleId
                 /\ DOMAIN sales' = DOMAIN sales \cup {x.saleId}
                 /\ \A s \in DOMAIN sales : sales'[s] = sales[s]
                 /\ sales'[x.saleId].status = "draft"
                 /\ sales'[x.saleId].total_amount = 0
                 /\ sales'[x.saleId].cashier_id = x.cashier
                 /\ \E y \in InFlight : Left(y) /\ y.pc = "insert"
                                        /\ y.cashier = x.cashier
     /\ (DOMAIN sales' \ DOMAIN sales # {}) =>
          \E x \in BagToSet(calls') :
            Arrived(x) /\ x.pc = "tx" /\ x.goc = "created"
    ]_vars

\* C3 witness: of two addItem calls in flight, one has inserted the draft
\* sale and the other has found that sale by the point lookup.
GetOrCreateWitness ==
  \E x, y \in InFlight :
    /\ x.goc = "created"
    /\ y.goc = "found"
    /\ y.saleId = x.saleId
    /\ x.saleId \in DraftsOf(sales, x.cashier)
    /\ sales[x.saleId].total_amount = 0

\* C4: addItem for a product of which the sale already holds a line item
\* raises that line item's quantity by one, sets its subtotal to the new
\* quantity times its stored unit_price, changes no other field and no
\* other line item and adds none; the sale's total becomes the sum.
AddItemIncrementsExisting ==
  [][\A x \in InFlight :
       (/\ Left(x)
        /\ x.pc = "tx"
        /\ AddItemTx
        /\ ExistingItems(sale_items, x.saleId, x.product) # {}) =>
         /\ DOMAIN sale_items' = DOMAIN sale_items
         /\ \E i \in ExistingItems(sale_items, x.saleId, x.product) :
              /\ sale_items'[i].quantity = sale_items[i].quantity + 1
              /\ sale_items'[i].subtotal =
                   (sale_items[i].quantity + 1) * sale_items[i].unit_price
              /\ sale_items'[i].unit_price = sale_items[i].unit_price
              /\ sale_items'[i].sale_id = sale_items[i].sale_id
              /\ sale_items'[i].product_id = sale_items[i].product_id
              /\ \A j \in DOMAIN sale_items \ {i} :
                   sale_items'[j] = sale_items[j]
         /\ Cardinality(ItemsOfSale(sale_items', x.saleId)) =
              Cardinality(ItemsOfSale(sale_items, x.saleId))
         /\ x.saleId \in DOMAIN sales =>
              sales'[x.saleId].total_amount =
                SelectTotal(sale_items', x.saleId)
    ]_vars

\* C4 witness: the same product added twice to an empty cart: addItem has
\* just incremented, and the draft sale holds one line item, of quantity 2
\* and subtotal twice the unit price.
AddItemTwiceWitness ==
  /\ last.op = "addItem"
  /\ last.branch = "incremented"
  /\ last.saleId \in DraftsOf(sales, cashier)
  /\ \E i \in DOMAIN sale_items :
       /\ ItemsOfSale(sale_items, last.saleId) = {i}
       /\ sale_items[i].product_id = last.product
       /\ sale_items[i].quantity = 2
       /\ sale_items[i].subtotal = 2 * Price(last.product)
       /\ sales[last.saleId].total_amount = 2 * Price(last.product)

\* C5: updateQuantity(p, q) on a draft sale that holds a line item for p:
\* with q <= 0 the line item is deleted, with q > 0 its quantity becomes q
\* and its subtotal q times its unit_price; the sale's total becomes the sum
\* of the subtotals left, and no other line item changes.
UpdateQuantityContract ==
  [][\A p \in Products, q \in QtyArgs :
       (/\ last'.op = "updateQuantity"
        /\ UpdateQuantity(p, q)
        /\ currentSaleId \in DOMAIN sales
        /\ ExistingItems(sale_items, currentSaleId, p) # {}) =>
         /\ \E i \in ExistingItems(sale_items, currentSaleId, p) :
              /\ IF q <= 0
                 THEN DOMAIN sale_items' = DOMAIN sale_items \ {i}
                 ELSE /\ DOMAIN sale_items' = DOMAIN sale_items
                      /\ sale_items'[i].quantity = q
                      /\ sale_items'[i].subtotal = q * sale_items[i].unit_price
                      /\ sale_items'[i].unit_price = sale_items[i].unit_price
                      /\ sale_items'[i].sale_id = sale_items[i].sale_id
                      /\ sale_items'[i].product_id = sale_items[i].product_id
              /\ \A j \in DOMAIN sale_items \ {i} :
                   sale_items'[j] = sale_items[j]
         /\ sales'[currentSaleId].total_amount =
              SelectTotal(sale_items', currentSaleId)
         /\ DOMAIN sales' = DOMAIN sales
         /\ \A s \in DOMAIN sales \ {currentSaleId} : sales'[s] = sales[s]
    ]_vars

\* C5 witness: updateQuantity with a quantity <= 0 has just deleted one of
\* the two line items of the draft sale, and the total is the subtotal of
\* the line item that is left.
UpdateQuantityWitness ==
  /\ last.op = "updateQuantity"
  /\ last.branch = "deleted"
  /\ itemCounter = 2
  /\ last.saleId \in DraftsOf(sales, cashier)
  /\ \E i \in DOMAIN sale_items :
       /\ ItemsOfSale(sale_items, last.saleId) = {i}
       /\ sale_items[i].product_id # last.product
       /\ sales[last.saleId].total_amount = sale_items[i].subtotal

\* C6: clearCart deletes every line item of the draft sale and the sale row
\* itself, and the next addItem of the same operator settles on a sale id
\* that is not the id of a deleted sale, creates that sale, and attaches its
\* line item to a sale that exists.
ClearCartThenAddItemMakesNewSale ==
  [][/\ (ClearCart /\ HasCurrentSale) =>
          /\ currentSaleId \notin DOMAIN sales'
          /\ ItemsOfSale(sale_items', currentSaleId) = {}
     /\ \A p \in Products :
          (AddItem(p) /\ CanAddItem /\ DraftsOf(sales, cashier) = {}) =>
            \A x \in BagToSet(calls') :
              Arrived(x) => x.saleId \notin DeletedSaleIds
    ]_vars

\* C7: a successful completeSale returns the id of the operator's draft
\* sale and leaves that row completed, with the cart's total and a completion
\* time, and the operator then has no draft sale.
CompleteSaleContract ==
  [][(last'.op = "completeSale" /\ CompleteSale /\ CanCompleteSale) =>
       /\ last'.result = currentSaleId
       /\ currentSaleId \in DraftsOf(sales, cashier)
       /\ currentSaleId \in DOMAIN sales'
       /\ sales'[currentSaleId].status = "completed"
       /\ sales'[currentSaleId].total_amount = total
       /\ sales'[currentSaleId].completed_at
       /\ DraftsOf(sales', cashier) = {}
    ]_vars

\* C8: an operation whose precondition is missing changes no row and
\* returns normally: completeSale without operator, draft sale id or cart
\* items returns null; addItem without operator, and updateQuantity,
\* removeItem and clearCart without draft sale id, ask the store for nothing.
MissingPreconditionIsNoOp ==
  [][/\ (/\ last'.op = "completeSale"
         /\ CompleteSale
         /\ (cashier = Null \/ currentSaleId = Null \/ items = {})) =>
          /\ last'.result = Null
          /\ last'.branch = "noop"
          /\ UNCHANGED <<dbVars, isProcessing>>
     /\ \A p \in Products :
          (last'.op = "addItem" /\ AddItem(p) /\ cashier = Null) =>
            /\ last'.branch = "noop"
            /\ UNCHANGED <<dbVars, calls>>
     /\ \A p \in Products, q \in QtyArgs :
          (/\ last'.op = "updateQuantity"
           /\ UpdateQuantity(p, q)
           /\ currentSaleId = Null) =>
            /\ last'.branch = "noop"
            /\ UNCHANGED <<dbVars, calls>>
     /\ \A p \in Products :
          (last'.op = "removeItem" /\ RemoveItem(p) /\ currentSaleId = Null) =>
            /\ last'.branch = "noop"
            /\ UNCHANGED <<dbVars, calls>>
     /\ (last'.op = "clearCart" /\ ClearCart /\ currentSaleId = Null) =>
          /\ last'.branch = "noop"
          /\ UNCHANGED <<dbVars, calls>>
    ]_vars

\* C8 witness: completeSale has just returned null for a logged-in operator
\* whose draft sale holds a line item, because the cart of the render was
\* empty; the sale is still a draft.
EmptyCartCompleteWitness ==
  /\ last.op = "completeSale"
  /\ last.branch = "noop"
  /\ last.result = Null
  /\ cashier # Null
  /\ currentSaleId \in DraftsOf(sales, cashier)
  /\ ItemsOfSale(sale_items, currentSaleId) # {}
  /\ items = {}

\* C9: after completeSale the total_amount of the completed sale is the sum
\* of the subtotals of the line items persisted for it.
CompletedTotalIsSumOfSubtotals ==
  [][(/\ last'.op = "completeSale"
      /\ CompleteSale
      /\ CanCompleteSale
      /\ currentSaleId \in DOMAIN sales) =>
       sales'[currentSaleId].total_amount =
         SelectTotal(sale_items', currentSaleId)
    ]_vars

\* C10: a sale row goes from draft to completed or from draft to deleted and
\* nowhere else: no step makes a sale voided, makes a completed sale a draft
\* again, or deletes a completed sale.
SaleLifecycle ==
  [][\A s \in DOMAIN sales :
       /\ s \in DOMAIN sales' => sales'[s].status # "voided"
       /\ sales[s].status = "completed" =>
            /\ s \in DOMAIN sales'
            /\ sales'[s].status = "completed"
    ]_vars

\* C11: when a statement of the local store throws inside updateQuantity,
\* removeItem or clearCart, the step leaves the rows of sales and sale_items
\* exactly as they were (clearCart leaves no sale row whose line items are
\* gone), the call returns, and it asks the store for nothing more: no id is
\* used up and no call is left in flight.
FailedUnitIsRolledBack ==
  [][(/\ last'.op \in {"updateQuantity", "removeItem", "clearCart"}
      /\ last'.branch \in ThrewBranches
      /\ \/ /\ last'.op = "updateQuantity"
            /\ \E q \in QtyArgs, failAt \in TxFailPoints :
                 /\ last'.branch = Threw(failAt)
                 /\ UpdateQuantityThrows(last'.product, q, failAt)
         \/ /\ last'.op = "removeItem"
            /\ \E failAt \in TxFailPoints :
                 /\ last'.branch = Threw(failAt)
                 /\ RemoveItemThrows(last'.product, failAt)
         \/ /\ last'.op = "clearCart"
            /\ \E failAt \in ClearFailPoints :
                 /\ last'.branch = Threw(failAt)
                 /\ ClearCartThrows(failAt)) =>
       /\ sales' = sales
       /\ sale_items' = sale_items
       /\ saleCounter' = saleCounter
       /\ itemCounter' = itemCounter
       /\ calls' = calls
       /\ last'.result = Null
    ]_vars

\* C11 witness: the DELETE of the sale row has just thrown in clearCart,
\* after the DELETE of the line items ran in the same transaction, and the
\* draft sale still has its row, its line items and their total.
ClearCartRolledBackWitness ==
  /\ last.op = "clearCart"
  /\ last.branch = Threw("deleteSale")
  /\ last.saleId \in DraftsOf(sales, cashier)
  /\ Cardinality(ItemsOfSale(sale_items, last.saleId)) = 2
  /\ sales[last.saleId].total_amount = SelectTotal(sale_items, last.saleId)

\* C12: when addItem fails after it was called (the INSERT of the draft
\* sale, or a statement of its transaction after the draft sale was created,
\* throws), the store is as it was before the call: no line item is new or
\* changed, no total is changed, and the sale row the call created is not
\* in the store.
FailedAddItemLeavesNoTrace ==
  [][\A x \in InFlight :
       (/\ Left(x)
        /\ last'.op = "addItem"
        /\ last'.branch \in ThrewBranches
        /\ \/ GetOrCreateInsertThrows
           \/ \E failAt \in TxFailPoints \ {"lookup"} :
                AddItemTxThrows(failAt)) =>
         /\ sale_items' = sale_items
         /\ sales' = sales
         /\ x.goc = "created" => x.saleId \notin DOMAIN sales'
    ]_vars

\* C13: operations that one caller awaits one after the other see each
\* other's effects, whatever the render: when an operator without draft sale
\* has awaited addItem(p) (the call created the sale and inserted the line
\* item, and no call is in flight), updateQuantity(p, q) with q > 0 leaves
\* the line item with quantity q, removeItem(p) leaves no line item for p,
\* and clearCart leaves the operator no draft sale.
AwaitedOperationsSeeEachOther ==
  [][(/\ last.op = "addItem"
      /\ last.goc = "created"
      /\ last.branch = "inserted"
      /\ calls = EmptyBag
      /\ last.saleId \in DraftsOf(sales, cashier)) =>
       /\ \A q \in 1 .. MaxQty :
            (last'.op = "updateQuantity" /\ UpdateQuantity(last.product, q)) =>
              \E i \in ExistingItems(sale_items', last.saleId, last.product) :
                sale_items'[i].quantity = q
       /\ (last'.op = "removeItem" /\ RemoveItem(last.product)) =>
            ExistingItems(sale_items', last.saleId, last.product) = {}
       /\ (last'.op = "clearCart" /\ ClearCart) =>
            DraftsOf(sales', cashier) = {}
    ]_vars

\* the line items of sale s are exactly: one of product A with quantity qa
\* and one of product B with quantity qb (none where the quantity is 0), at
\* the seed prices
CartIs(s, qa, qb) ==
  /\ s \in DOMAIN sales
  /\ \A p \in Products :
       LET qp == IF p = "A" THEN qa ELSE qb
           rows == ExistingItems(sale_items, s, p)
       IN IF qp = 0 THEN rows = {}
          ELSE /\ Cardinality(rows) = 1
               /\ \A i \in rows : /\ sale_items[i].quantity = qp
                                   /\ sale_items[i].unit_price = Price(p)

UnitPriceIsSnapshot ==
  [][/\ \A i \in DOMAIN sale_items \cap DOMAIN sale_items' :
          sale_items'[i].unit_price = sale_items[i].unit_price
     /\ \A i \in DOMAIN sale_items' :
          sale_items'[i].subtotal =
            sale_items'[i].quantity * sale_items'[i].unit_price
     /\ \A i \in DOMAIN sale_items' \ DOMAIN sale_items :
          \E x \in InFlight :
            /\ Left(x)
            /\ x.pc = "tx"
            /\ sale_items'[i].product_id = x.product
            /\ sale_items'[i].unit_price = x.price
    ]_vars

\* C15 witness: addItem was called with a product object whose price is
\* not the unit_price of the line item the sale holds for that product, and
\* has incremented the line item: quantity 2, the unit_price as stored,
\* the subtotal twice the stored unit_price.
UnitPriceKeptWitness ==
  /\ last.op = "addItem"
  /\ last.branch = "incremented"
  /\ \E i \in ExistingItems(sale_items, last.saleId, last.product) :
       /\ sale_items[i].unit_price # last.price
       /\ sale_items[i].quantity = 2
       /\ sale_items[i].subtotal = 2 * sale_items[i].unit_price

\* C16: in every reachable state every line item has an integer quantity
\* of at least 1 and a subtotal of quantity times unit_price, under any
\* interleaving of addItem, updateQuantity (any integer argument) and
\* removeItem.
LineItemsWellFormed ==
  \A i \in DOMAIN sale_items :
    /\ sale_items[i].quantity \in Int
    /\ sale_items[i].quantity >= 1
    /\ sale_items[i].subtotal = sale_items[i].quantity * sale_items[i].unit_price

\* C16 witness: updateQuantity with an argument <= 0 has just deleted a line
\* item while an addItem call is in flight, and the sale still holds a line
\* item, of quantity 2.
LineItemsWitness ==
  /\ last.op = "updateQuantity"
  /\ last.branch = "deleted"
  /\ calls # EmptyBag
  /\ \E i \in ItemsOfSale(sale_items, last.saleId) :
       /\ sale_items[i].quantity = 2
       /\ sale_items[i].subtotal = 2 * sale_items[i].unit_price

\* C17: in every reachable state the sale_id of every line item is the id
\* of a row of sales.
LineItemsBelongToSales ==
  \A i \in DOMAIN sale_items : sale_items[i].sale_id \in DOMAIN sales

\* C18: removeItem(p) on a sale that exists and holds a line item for p
\* deletes that line item and no other, sets the sale's total to the sum of
\* the subtotals left and changes no other row; removeItem and
\* updateQuantity for a product of which the sale holds no line item write
\* no line item and no total.
RemoveItemContract ==
  [][/\ (/\ last'.op = "removeItem"
         /\ RemoveItem(last'.product)
         /\ currentSaleId \in DOMAIN sales
         /\ ExistingItems(sale_items, currentSaleId, last'.product) # {}) =>
          /\ \E i \in ExistingItems(sale_items, currentSaleId, last'.product) :
               /\ ExistingItems(sale_items, currentSaleId, last'.product) = {i}
               /\ DOMAIN sale_items' = DOMAIN sale_items \ {i}
               /\ \A j \in DOMAIN sale_items \ {i} :
                    sale_items'[j] = sale_items[j]
          /\ sales'[currentSaleId].total_amount =
               SelectTotal(sale_items', currentSaleId)
          /\ DOMAIN sales' = DOMAIN sales
          /\ \A s \in DOMAIN sales \ {currentSaleId} : sales'[s] = sales[s]
     /\ (/\ last'.op = "removeItem"
         /\ RemoveItem(last'.product)
         /\ ExistingItems(sale_items, currentSaleId, last'.product) = {}) =>
          UNCHANGED <<sales, sale_items>>
     /\ \A q \in QtyArgs :
          (/\ last'.op = "updateQuantity"
           /\ UpdateQuantity(last'.product, q)
           /\ ExistingItems(sale_items, currentSaleId, last'.product) = {}) =>
            UNCHANGED <<sales, sale_items>>
    ]_vars

\* C18 witness: removeItem has just deleted one of the two line items of
\* the draft sale; the other is still there and the total is its subtotal.
RemoveItemWitness ==
  /\ last.op = "removeItem"
  /\ last.branch = "deleted"
  /\ itemCounter = 2
  /\ last.saleId \in DraftsOf(sales, cashier)
  /\ \E i \in DOMAIN sale_items :
       /\ ItemsOfSale(sale_items, last.saleId) = {i}
       /\ sale_items[i].product_id # last.product
       /\ sales[last.saleId].total_amount = sale_items[i].subtotal

\* the PINs that are well-formed 4-digit codes
WellFormedPins == {"1234", "9012"}

\* the active rows of the cashiers table with the given PIN
ActiveRows(pin) == {r \in CashierRows : r.pin_hash = pin /\ r.is_active = 1}

LoginErrorsAreDistinct ==
  [][/\ InvalidPinError # LoginFailedError
     /\ \A pin \in AuthPins, queryOk \in BOOLEAN :
          LoginWithPin(pin, queryOk) =>
            IF loginReturn'
            THEN error' = Null
            ELSE error' = IF queryOk THEN InvalidPinError ELSE LoginFailedError
     /\ Logout => error' = Null
    ]_vars

\* C20 witness: a login whose query threw has just returned false to a
\* session in which an operator is logged in, and error holds the
\* login-failed message.
LoginFailedWitness ==
  /\ ~loginReturn
  /\ error = LoginFailedError
  /\ cashier = "op1"

\* C21: whenever the backend can be reached, the sync client is eventually
\* connected (or the backend is lost again first): a sign-in that failed at
\* start-up is made up for once the backend is back, without a reload.
BackendUpLeadsToConnected == backendUp ~> (connected \/ ~backendUp)

\* C22: no cart or login operation writes to the cashiers, categories or
\* products tables: in every reachable state, after any sequence of addItem,
\* updateQuantity, removeItem, clearCart, completeSale, loginWithPin and
\* logout, the three tables hold the rows they were provisioned with, price
\* and stock_quantity of every product included.
CatalogueIsReadOnly ==
  /\ products = ProductRows
  /\ cashiers = CashierRows
  /\ categories = CategoryRows

\* C22 witness: completeSale has just completed a sale that has a line item
\* of product A on the store, and the stock of A is what it was.
CompletedSaleKeepsStockWitness ==
  /\ last.op = "completeSale"
  /\ last.branch = "completed"
  /\ ExistingItems(sale_items, last.saleId, "A") # {}
  /\ products["A"].stock_quantity = Stock("A")

CallsFor(s, p) ==
  {y \in InFlight : y.pc = "tx" /\ y.saleId = s /\ y.product = p}

OneLineItemPerSaleAndProduct ==
  \A i, j \in DOMAIN sale_items :
    (/\ sale_items[i].sale_id = sale_items[j].sale_id
     /\ sale_items[i].product_id = sale_items[j].product_id) => i = j

\* C26: once a sale has status 'completed', no later addItem,
\* updateQuantity, removeItem or clearCart changes its row, its total_amount
\* or its set of line items, also when the operation is invoked from a
\* render that still holds the completed sale's id as the current sale.
CompletedSaleIsFrozen ==
  [][(\/ AddItemTx
      \/ \E p \in Products, q \in QtyArgs : UpdateQuantity(p, q)
      \/ \E p \in Products : RemoveItem(p)
      \/ ClearCart) =>
       \A s \in DOMAIN sales :
         sales[s].status = "completed" =>
           /\ s \in DOMAIN sales'
           /\ sales'[s] = sales[s]
           /\ ItemsOfSale(sale_items', s) = ItemsOfSale(sale_items, s)
           /\ \A i \in ItemsOfSale(sale_items, s) :
                sale_items'[i] = sale_items[i]
    ]_vars

\* a step changed the row of sale s, deleted it, or changed, added or
\* deleted a line item of it
Touched(s) ==
  \/ s \notin DOMAIN sales'
  \/ sales'[s] # sales[s]
  \/ ItemsOfSale(sale_items', s) # ItemsOfSale(sale_items, s)
  \/ \E i \in ItemsOfSale(sale_items, s) : sale_items'[i] # sale_items[i]

\* the operator on whose behalf a step writes: the cashier of the render
\* the addItem call was made in when the step is one of an addItem call,
\* else the cashier logged in
Invokers ==
  IF calls' # calls THEN {x.cashier : x \in {y \in InFlight : Left(y)}}
  ELSE {cashier}

\* C27: every write of a cart operation goes to a sale, or to line items of
\* a sale, whose cashier_id is the operator who was logged in when the
\* operation was invoked, and a sale it creates gets that cashier_id: after
\* logout and login as another operator, no operation of the new operator
\* modifies, completes or deletes the draft sale of the previous one.
WritesStayWithInvoker ==
  [][/\ \A s \in DOMAIN sales :
          Touched(s) => sales[s].cashier_id \in Invokers
     /\ \A s \in DOMAIN sales' \ DOMAIN sales :
          sales'[s].cashier_id \in Invokers
    ]_vars

\* C27 witness: after operator op1 left a draft sale with a line item and
\* logged out, the demo operator logged in, filled a sale of its own and has
\* just completed it; op1's draft and its line item are still there.
SecondOperatorCompletedOwnSaleWitness ==
  /\ cashier = "demo-9012"
  /\ last.op = "completeSale"
  /\ last.branch = "completed"
  /\ last.saleId \in DOMAIN sales
  /\ sales[last.saleId].cashier_id = "demo-9012"
  /\ \E s \in DraftsOf(sales, "op1") :
       /\ ItemsOfSale(sale_items, s) # {}
       /\ sales[s].total_amount = SelectTotal(sale_items, s)

\* C28: every sale with status 'completed' has at least one line item on
\* the store, under any interleaving of completeSale with removeItem,
\* updateQuantity(<= 0) and clearCart on the same sale.
CompletedSaleHasLineItems ==
  \A s \in DOMAIN sales :
    sales[s].status = "completed" => ItemsOfSale(sale_items, s) # {}

\* C29: each press of the plus control of a cart line raises the persisted
\* quantity of that line item by exactly one, and each press of the minus
\* control lowers it by exactly one and deletes the line item at zero - so
\* k quick presses change the quantity by k - also when the press happens
\* before the render has caught up with the store.
PressChangesQuantityByOne ==
  [][\A i \in DOMAIN sale_items :
       /\ PressPlus(i) =>
            /\ i \in DOMAIN sale_items'
            /\ sale_items'[i].quantity = sale_items[i].quantity + 1
       /\ PressMinus(i) =>
            IF sale_items[i].quantity = 1
            THEN i \notin DOMAIN sale_items'
            ELSE /\ i \in DOMAIN sale_items'
                 /\ sale_items'[i].quantity = sale_items[i].quantity - 1
    ]_vars

\* C30: logout sets cashier and error to null and writes nothing to the
\* store: every sale, the operator's draft included, and every line item
\* is as it was; and for the operator then logged in, the draft-sale live
\* query and addItem's point lookup resolve to a draft sale of that operator
\* that is on the store, with the line items it has there, and addItem
\* goes on to create a sale only when there is none.
LogoutKeepsDraftSale ==
  [][/\ Logout =>
          /\ cashier' = Null
          /\ error' = Null
          /\ UNCHANGED <<dbVars, catalogVars>>
     /\ (LiveDraftSales /\ DraftsOf(sales, cashier) # {}) =>
          currentSaleId' \in DraftsOf(sales, cashier)
     /\ (LiveSaleItems /\ currentSaleId \in DOMAIN sales) =>
          /\ DOMAIN rawSaleItems' = ItemsOfSale(sale_items, currentSaleId)
          /\ \A i \in DOMAIN rawSaleItems' : rawSaleItems'[i] = sale_items[i]
     /\ \A x \in InFlight :
          (/\ GetOrCreateLookup
           /\ Left(x)
           /\ DraftsOf(sales, x.cashier) # {}) =>
            \E y \in BagToSet(calls') :
              /\ y.pc = "tx"
              /\ y.saleId \in DraftsOf(sales, x.cashier)
    ]_vars

\* C30 witness: op1 made draft sale s1 with a line item and logged out, the
\* demo operator logged in, made sale s2 and logged out, and op1 has logged
\* in again: the render shows s1, still a draft of op1, with its line item,
\* and no further sale was created.
SameDraftAfterLoginAgainWitness ==
  /\ cashier = "op1"
  /\ DOMAIN sales = {"s1", "s2"}
  /\ sales["s1"].cashier_id = "op1"
  /\ sales["s1"].status = "draft"
  /\ sales["s2"].cashier_id = "demo-9012"
  /\ currentSaleId = "s1"
  /\ ItemsOfSale(sale_items, "s1") # {}
  /\ DOMAIN rawSaleItems = ItemsOfSale(sale_items, "s1")
  /\ \A i \in DOMAIN rawSaleItems : rawSaleItems[i] = sale_items[i]

====
